---- MODULE Spec2Model ----
(***************************************************************************)
(* Lindenmayer systems: the rewriting engine (LindIter), the turtle        *)
(* command encoder (turtleGraph), the path builder (turtlePlot) and the    *)
(* interactive menu loop of src/Lsystems.py.                               *)
(*                                                                         *)
(* Representation.                                                         *)
(*  - A Python str is a sequence of one-character strings.                 *)
(*  - An angle is an integer number of units of pi/3: every angle of the   *)
(*    registry is such a multiple, and cos and sin are then exact          *)
(*    (Cos2, Sin3).                                                        *)
(*  - A length is an integer number of units of 1/LenUnit, which is exact  *)
(*    for every scale^-N the menu's ranges allow.                          *)
(*  - A 2-vector (x, y) is the integer pair <<2*x, y / (sqrt(3)/2)>>, so   *)
(*    the rotation matrix of the code acts on integers only.               *)
(*  Floating-point rounding is not modelled.                               *)
(***************************************************************************)
EXTENDS Integers, Sequences, FiniteSets, TLC

VARIABLES
    fn,                 \* the function whose body runs: "main" or a core function
    pc,                 \* position inside fn
    b,                  \* main: option 1 was chosen before
    defined,            \* the names bound so far (a use of any other is a NameError)
    INPUT_SYSTEM,       \* the system name (main's global, a core function's argument)
    INPUT_N,            \* the iteration count (main's global, a core function's argument)
    range,              \* get_iteration: its (min, max) argument while it loops
    lindenmayerString,  \* the symbol string
    turtleCommands,     \* the flat row vector: length, angle, length, angle, ...
    turtle,             \* the data array turtlePlot draws
    raised,             \* the exception that ended the call or the program
    printed             \* the last message printed by the menu

vars == << fn, pc, b, defined, INPUT_SYSTEM, INPUT_N, range, lindenmayerString,
           turtleCommands, turtle, raised, printed >>

(***************************************************************************)
(* Bounds of the exploration.                                              *)
(***************************************************************************)
\* generations explored by the function-level specification
MaxN == 3
\* longest arbitrary symbol string handed to turtleGraph
MaxLen == 4
\* longest arbitrary row vector handed to turtlePlot, in commands
MaxCmds == 2

\* negative generation counts explored by the function-level specification
MaxNeg == 2

(***************************************************************************)
(* The definition registry.                                                *)
(***************************************************************************)
LINDENMAYER_SYSTEMS ==
    [ n \in {"Koch curve", "Sierpinski triangle"} |->
        IF n = "Koch curve"
        THEN [ init    |-> <<"S">>,
               rules   |-> [ c \in {"S", "L", "R"} |->
                               CASE c = "S" -> <<"S","L","S","R","S","L","S">>
                                 [] c = "L" -> <<"L">>
                                 [] c = "R" -> <<"R">> ],
               forward |-> {"S"},
               left    |-> {"L"},
               right   |-> {"R"},
               scale   |-> 3,
               angle   |-> [ left |-> 1, right |-> -2 ] ]
        ELSE [ init    |-> <<"A">>,
               rules   |-> [ c \in {"A", "B", "L", "R"} |->
                               CASE c = "A" -> <<"B","R","A","R","B">>
                                 [] c = "B" -> <<"A","L","B","L","A">>
                                 [] c = "L" -> <<"L">>
                                 [] c = "R" -> <<"R">> ],
               forward |-> {"A", "B"},
               left    |-> {"L"},
               right   |-> {"R"},
               scale   |-> 2,
               angle   |-> [ left |-> 1, right |-> -1 ] ] ]

\* Entries the dictionary does not hold: definitions whose rule table is not
\* closed.  LindIter reads whatever entry the dictionary holds under the name.
OpenSystems ==
    [ n \in {"Open seed", "Open branch"} |->
        IF n = "Open seed"
        THEN [ init    |-> <<"X">>,
               rules   |-> [ c \in {"S"} |-> <<"S","L","S">> ],
               forward |-> {"S"},
               left    |-> {"L"},
               right   |-> {"R"},
               scale   |-> 3,
               angle   |-> [ left |-> 1, right |-> -2 ] ]
        ELSE [ init    |-> <<"S">>,
               rules   |-> [ c \in {"S", "L"} |->
                               CASE c = "S" -> <<"S","X","S","L">>
                                 [] c = "L" -> <<"L">> ],
               forward |-> {"S"},
               left    |-> {"L"},
               right   |-> {"R"},
               scale   |-> 3,
               angle   |-> [ left |-> 1, right |-> -2 ] ] ]

Registered == DOMAIN LINDENMAYER_SYSTEMS

System(name) ==
    IF name \in Registered THEN LINDENMAYER_SYSTEMS[name] ELSE OpenSystems[name]

SystemNames == Registered \cup DOMAIN OpenSystems

(***************************************************************************)
(* Arithmetic helpers.                                                     *)
(***************************************************************************)
RECURSIVE Pow(_, _)
Pow(base, e) == IF e <= 0 THEN 1 ELSE base * Pow(base, e - 1)

\* every length 1/3^N (N <= 5) and 1/2^N (N <= 8) is a multiple of 1/LenUnit
LenUnit == Pow(3, 5) * Pow(2, 8)

\* the code point of a symbol
ord(c) ==
    CASE c = "A" -> 65 [] c = "B" -> 66 [] c = "L" -> 76
      [] c = "R" -> 82 [] c = "S" -> 83 [] c = "X" -> 88

(***************************************************************************)
(* LindIter.                                                               *)
(***************************************************************************)
\* str.maketrans(dict): the table keyed by code point
maketrans(rules) ==
    [ o \in { ord(c) : c \in DOMAIN rules } |->
        rules[CHOOSE c \in DOMAIN rules : ord(c) = o] ]

\* str.translate(table) on the symbols lo..hi of str: a symbol whose code point
\* is in the table gives its replacement, any other symbol is copied.  The
\* range is halved only to keep the evaluation shallow; the result is the
\* left-to-right concatenation.
RECURSIVE translateRange(_, _, _, _)
translateRange(str, table, lo, hi) ==
    IF lo > hi THEN << >>
    ELSE IF lo = hi
         THEN IF ord(str[lo]) \in DOMAIN table THEN table[ord(str[lo])]
              ELSE << str[lo] >>
         ELSE LET mid == (lo + hi) \div 2
              IN  translateRange(str, table, lo, mid)
                    \o translateRange(str, table, mid + 1, hi)

\* A faulty variant of the algorithm: one str.replace per table
\* entry, in code-point order, each over the string the previous one left.
RECURSIVE replaceEach(_, _, _)
replaceEach(str, table, keys) ==
    IF keys = {} THEN str
    ELSE LET o == CHOOSE k \in keys : \A j \in keys : k <= j
         IN  replaceEach(translateRange(str, [ x \in {o} |-> table[o] ], 1, Len(str)),
                         table, keys \ {o})

translateSequential(str, table) == replaceEach(str, table, DOMAIN table)

translate(str, table) == translateRange(str, table, 1, Len(str))

\* A faulty variant of the loop: range(N + 1).
RECURSIVE LindIterLoopOneMore(_, _, _)
LindIterLoopOneMore(str, system, n) ==
    IF n < 0 THEN str
    ELSE LindIterLoopOneMore(
             translateRange(str, [ o \in { ord(c) : c \in DOMAIN System(system).rules } |->
                 System(system).rules[CHOOSE c \in DOMAIN System(system).rules : ord(c) = o] ],
                 1, Len(str)),
             system, n - 1)

\* the body of "for _ in range(N)", run n more times
RECURSIVE LindIterLoop(_, _, _)
LindIterLoop(str, system, n) ==
    IF n <= 0 THEN str
    ELSE LET rules == System(system).rules
             translate_table == maketrans(rules)
         IN  LindIterLoop(translate(str, translate_table), system, n - 1)

LindIter(system, N) == LindIterLoop(System(system).init, system, N)

(***************************************************************************)
(* turtleGraph.                                                            *)
(***************************************************************************)
\* 1 / (scale ** N), in units of 1/LenUnit
Length(system, N) ==
    IF N >= 0 THEN LenUnit \div Pow(System(system).scale, N)
    ELSE LenUnit * Pow(System(system).scale, -N)

\* A faulty variant of the encoder: a forward symbol after the
\* first emits a command too.
symbolCommandsForwardEmits(symbol, system, length) ==
    IF symbol \in System(system).left
    THEN << length, System(system).angle.left >>
    ELSE IF symbol \in System(system).right
         THEN << length, System(system).angle.right >>
         ELSE IF symbol \in System(system).forward THEN << length, 0 >> ELSE << >>

\* A faulty variant of the encoder: the two turn angles are exchanged.
symbolCommandsSwapped(symbol, system, length) ==
    IF symbol \in System(system).left
    THEN << length, System(system).angle.right >>
    ELSE IF symbol \in System(system).right
         THEN << length, System(system).angle.left >>
         ELSE << >>

\* what one symbol after the first adds to the row vector
symbolCommands(symbol, system, length) ==
    IF symbol \in System(system).left
    THEN << length, System(system).angle.left >>
    ELSE IF symbol \in System(system).right
         THEN << length, System(system).angle.right >>
         ELSE << >>

\* the loop over the symbols lo..hi, in order (halved to keep the evaluation
\* shallow)
RECURSIVE graphRange(_, _, _, _, _)
graphRange(str, system, length, lo, hi) ==
    IF lo > hi THEN << >>
    ELSE IF lo = hi THEN symbolCommands(str[lo], system, length)
         ELSE LET mid == (lo + hi) \div 2
              IN  graphRange(str, system, length, lo, mid)
                    \o graphRange(str, system, length, mid + 1, hi)

\* A faulty variant of the encoder: the assert statement on the
\* first symbol is left out.
turtleGraphNoAssert(str, system, N) ==
    LET length == Length(system, N)
    IN  [ raised |-> "none",
          value  |-> << length, 0 >> \o graphRange(str, system, length, 2, Len(str)) ]

\* the outcome of turtleGraph: the exception raised, or the row vector
turtleGraph(str, system, N) ==
    LET length == Length(system, N)
    IN  IF Len(str) = 0
        THEN [ raised |-> "IndexError", value |-> << >> ]
        ELSE IF str[1] \notin System(system).forward
             THEN [ raised |-> "AssertionError", value |-> << >> ]
             ELSE [ raised |-> "none",
                    value  |-> << length, 0 >>
                                 \o graphRange(str, system, length, 2, Len(str)) ]

(***************************************************************************)
(* turtlePlot.                                                             *)
(***************************************************************************)
\* 2 * cos(a * pi/3)
Cos2(a) == CASE a % 6 = 0 -> 2  [] a % 6 = 1 -> 1  [] a % 6 = 2 -> -1
             [] a % 6 = 3 -> -2 [] a % 6 = 4 -> -1 [] a % 6 = 5 -> 1

\* sin(a * pi/3) / (sqrt(3)/2)
Sin3(a) == CASE a % 6 = 0 -> 0  [] a % 6 = 1 -> 1  [] a % 6 = 2 -> 1
             [] a % 6 = 3 -> 0  [] a % 6 = 4 -> -1 [] a % 6 = 5 -> -1

\* np.dot(mod, d) for mod = [[cos, -sin], [sin, cos]] of the angle:
\*   x' = cos*x - sin*y,  y' = sin*x + cos*y
\* on d = <<2*x, y/(sqrt(3)/2)>>
rotate(angle, d) ==
    << (Cos2(angle) * d[1] - 3 * Sin3(angle) * d[2]) \div 2,
       (Sin3(angle) * d[1] + Cos2(angle) * d[2]) \div 2 >>

\* np.reshape(turtleCommands, (len // 2, 2))
reshape(flat) == [ k \in 1..(Len(flat) \div 2) |-> << flat[2*k - 1], flat[2*k] >> ]

\* A faulty variant of the loop body: the move is made along the
\* heading as it was before the rotation.
loopBodyMoveFirst(length, angle, d, x) ==
    [ d |-> rotate(angle, d),
      x |-> << x[1] + length * d[1], x[2] + length * d[2] >> ]

\* the body of "for length, angle in commands": the new heading and position
loopBody(length, angle, d, x) ==
    LET d1 == rotate(angle, d)
    IN  [ d |-> d1,
          x |-> << x[1] + length * d1[1], x[2] + length * d1[2] >> ]

\* the loop over the commands lo..hi from heading d and position x: the
\* heading and position it ends with and the points it stacked, in order.
\* The commands mid+1..hi start from the heading and position the commands
\* lo..mid ended with (first is a value before they start).
RECURSIVE plotRange(_, _, _, _, _)
plotRange(commands, lo, hi, d, x) ==
    IF lo > hi THEN [ d |-> d, x |-> x, points |-> << >> ]
    ELSE IF lo = hi
         THEN LET s == loopBody(commands[lo][1], commands[lo][2], d, x)
              IN  [ d |-> s.d, x |-> s.x, points |-> << s.x >> ]
         ELSE LET mid == (lo + hi) \div 2
                  then(first) ==
                      LET rest == plotRange(commands, mid + 1, hi, first.d, first.x)
                      IN  [ d |-> rest.d, x |-> rest.x,
                            points |-> first.points \o rest.points ]
              IN  CHOOSE run \in { then(first) :
                                     first \in { plotRange(commands, lo, mid, d, x) } }
                         : TRUE

\* the outcome of turtlePlot: the exception raised, and the data array built
\* before it.  An odd row vector cannot be reshaped; with no command the data
\* array stays the 1-D start point and turtle[:, 0] fails.
turtlePlot(flat, system) ==
    IF Len(flat) % 2 # 0
    THEN [ raised |-> "ValueError", turtle |-> << >> ]
    ELSE LET d == << 2, 0 >>
             x == << 0, 0 >>
             commands == reshape(flat)
             run == plotRange(commands, 1, Len(commands), d, x)
         IN  [ raised |-> IF Len(commands) = 0 THEN "IndexError" ELSE "none",
               turtle |-> << x >> \o run.points ]

(***************************************************************************)
(* The function-level specification: one call of a core function on        *)
(* arguments drawn from bounded sets.                                      *)
(***************************************************************************)
RECURSIVE SeqsUpTo(_, _)
SeqsUpTo(S, n) ==
    IF n = 0 THEN { << >> }
    ELSE LET shorter == SeqsUpTo(S, n - 1)
         IN  shorter \cup { Append(s, c) : s \in { t \in shorter : Len(t) = n - 1 }, c \in S }

\* the symbols a string handed to turtleGraph is made of: the classified
\* symbols of the system and one unclassified symbol
Alphabet(system) ==
    System(system).forward \cup System(system).left \cup System(system).right
        \cup {"X"}

\* the strings handed to turtleGraph: every short string, and the strings the
\* rewriter produces
GraphInputs(system) ==
    SeqsUpTo(Alphabet(system), MaxLen) \cup { LindIter(system, n) : n \in 0..MaxN }

\* the row vectors handed to turtlePlot: lengths and angles from -2..2, of
\* even and of odd size
PlotInputs == SeqsUpTo(-2..2, 2 * MaxCmds)

InitCore ==
    /\ pc = "call"
    /\ b = FALSE
    /\ defined = {}
    /\ range = << >>
    /\ raised = "none"
    /\ printed = "none"
    /\ turtle = << >>
    /\ \/ /\ fn = "LindIter"
          /\ INPUT_SYSTEM \in SystemNames
          /\ INPUT_N \in (-MaxNeg)..MaxN
          /\ lindenmayerString = << >>
          /\ turtleCommands = << >>
       \/ /\ fn = "turtleGraph"
          /\ INPUT_SYSTEM \in Registered
          /\ INPUT_N \in 0..MaxN
          /\ lindenmayerString \in GraphInputs(INPUT_SYSTEM)
          /\ turtleCommands = << >>
       \/ /\ fn = "turtlePlot"
          /\ INPUT_SYSTEM \in Registered
          /\ INPUT_N = 0
          /\ lindenmayerString = << >>
          /\ turtleCommands \in PlotInputs

CallLindIter ==
    /\ fn = "LindIter" /\ pc = "call"
    /\ lindenmayerString' = LindIter(INPUT_SYSTEM, INPUT_N)
    /\ pc' = "return"
    /\ UNCHANGED << fn, b, defined, INPUT_SYSTEM, INPUT_N, range, turtleCommands,
                    turtle, raised, printed >>

CallTurtleGraph ==
    /\ fn = "turtleGraph" /\ pc = "call"
    /\ LET out == turtleGraph(lindenmayerString, INPUT_SYSTEM, INPUT_N)
       IN  /\ raised' = out.raised
           /\ turtleCommands' = out.value
           /\ pc' = IF out.raised = "none" THEN "return" ELSE "raise"
    /\ UNCHANGED << fn, b, defined, INPUT_SYSTEM, INPUT_N, range,
                    lindenmayerString, turtle, printed >>

CallTurtlePlot ==
    /\ fn = "turtlePlot" /\ pc = "call"
    /\ LET out == turtlePlot(turtleCommands, INPUT_SYSTEM)
       IN  /\ raised' = out.raised
           /\ turtle' = out.turtle
           /\ pc' = IF out.raised = "none" THEN "return" ELSE "raise"
    /\ UNCHANGED << fn, b, defined, INPUT_SYSTEM, INPUT_N, range,
                    lindenmayerString, turtleCommands, printed >>

NextCore == CallLindIter \/ CallTurtleGraph \/ CallTurtlePlot

SpecCore == InitCore /\ [][NextCore]_vars

(***************************************************************************)
(* The menu loop.  A line typed at a prompt is a sequence of characters.   *)
(***************************************************************************)
\* str.strip(): leading and trailing blanks removed
RECURSIVE strip(_)
strip(raw) ==
    IF Len(raw) = 0 THEN raw
    ELSE IF raw[1] = " " THEN strip(Tail(raw))
    ELSE IF raw[Len(raw)] = " " THEN strip(SubSeq(raw, 1, Len(raw) - 1))
    ELSE raw

DigitChars == {"0", "1", "2", "3", "4", "5", "6", "7", "8", "9"}

digit(c) ==
    CASE c = "0" -> 0 [] c = "1" -> 1 [] c = "2" -> 2 [] c = "3" -> 3
      [] c = "4" -> 4 [] c = "5" -> 5 [] c = "6" -> 6 [] c = "7" -> 7
      [] c = "8" -> 8 [] c = "9" -> 9

\* the value of the first n characters of a digit string
RECURSIVE digitsValue(_, _)
digitsValue(ds, n) ==
    IF n = 0 THEN 0 ELSE 10 * digitsValue(ds, n - 1) + digit(ds[n])

\* int(str): blanks around, an optional sign, then one or more digits;
\* anything else is a ValueError (ok = FALSE)
int(raw) ==
    LET s      == strip(raw)
        signed == Len(s) > 0 /\ s[1] \in {"+", "-"}
        ds     == IF signed THEN Tail(s) ELSE s
    IN  IF Len(ds) > 0 /\ \A i \in 1..Len(ds) : ds[i] \in DigitChars
        THEN [ ok |-> TRUE,
               value |-> IF signed /\ s[1] = "-" THEN -digitsValue(ds, Len(ds))
                         ELSE digitsValue(ds, Len(ds)) ]
        ELSE [ ok |-> FALSE, value |-> 0 ]

\* A faulty variant of the range test: the lower limit is not tested.
acceptsNoLowerLimit(raw, limits) ==
    int(raw).ok /\ ~(int(raw).value > limits[2])

\* get_iteration: the line typed ends the loop (no ValueError is raised)
accepts(raw, limits) ==
    int(raw).ok /\ ~(int(raw).value < limits[1] \/ int(raw).value > limits[2])

\* the lines typed at the three prompts
MenuLines == { <<"1">>, <<" ", "1", " ">>, <<"2">>, <<"3">>, <<"4">>, << >> }
CurveLines == { <<"1">>, <<"2">>, <<" ", "2">>, <<"3">>, <<"x">>, << >> }
IterationLines ==
    { <<"0">>, <<"1">>, <<" ", "2", " ">>, <<"5">>, <<"6">>, <<"9">>,
      <<"-", "1">>, <<"+", "1">>, <<"x">>, << >> }

Init ==
    /\ fn = "main"
    /\ pc = "menu"
    /\ b = FALSE
    /\ defined = {}
    /\ INPUT_SYSTEM = ""
    /\ INPUT_N = 0
    /\ range = << >>
    /\ lindenmayerString = << >>
    /\ turtleCommands = << >>
    /\ turtle = << >>
    /\ raised = "none"
    /\ printed = "none"

\* choice "1": b is set, the curve prompt follows
Option1 ==
    /\ fn = "main" /\ pc = "menu"
    /\ \E raw \in MenuLines : strip(raw) = <<"1">>
    /\ b' = TRUE
    /\ pc' = "curve"
    /\ UNCHANGED << fn, defined, INPUT_SYSTEM, INPUT_N, range, lindenmayerString,
                    turtleCommands, turtle, raised, printed >>

\* the line typed at the curve prompt: a curve is stored and get_iteration
\* starts, or the ValueError sends the user back to the main menu
ChooseCurve ==
    /\ fn = "main" /\ pc = "curve"
    /\ \E raw \in CurveLines :
         LET choice2 == strip(raw)
         IN  IF choice2 = <<"1">>
             THEN /\ INPUT_SYSTEM' = "Koch curve"
                  /\ defined' = defined \cup {"INPUT_SYSTEM"}
                  /\ range' = << 0, 5 >>
                  /\ pc' = "iteration"
                  /\ UNCHANGED printed
             ELSE IF choice2 = <<"2">>
             THEN /\ INPUT_SYSTEM' = "Sierpinski triangle"
                  /\ defined' = defined \cup {"INPUT_SYSTEM"}
                  /\ range' = << 0, 8 >>
                  /\ pc' = "iteration"
                  /\ UNCHANGED printed
             ELSE /\ printed' = "redirected to the main menu"
                  /\ pc' = "menu"
                  /\ UNCHANGED << INPUT_SYSTEM, defined, range >>
    /\ UNCHANGED << fn, b, INPUT_N, lindenmayerString, turtleCommands, turtle,
                    raised >>

\* the line typed at the iteration prompt: get_iteration returns it, or
\* prints and asks again
GetIteration ==
    /\ fn = "main" /\ pc = "iteration"
    /\ \E raw \in IterationLines :
         IF accepts(raw, range)
         THEN /\ INPUT_N' = int(raw).value
              /\ defined' = defined \cup {"INPUT_N"}
              /\ range' = << >>
              /\ pc' = "menu"
              /\ UNCHANGED printed
         ELSE /\ printed' = "outside of defined range"
              /\ UNCHANGED << INPUT_N, defined, range, pc >>
    /\ UNCHANGED << fn, b, INPUT_SYSTEM, lindenmayerString, turtleCommands,
                    turtle, raised >>

\* choice "2": with b set the pipeline runs on the stored names; a name that
\* is not bound, or an exception of the pipeline, ends the program
Option2 ==
    /\ fn = "main" /\ pc = "menu"
    /\ \E raw \in MenuLines : strip(raw) = <<"2">>
    /\ IF b
       THEN IF ~({"INPUT_SYSTEM", "INPUT_N"} \subseteq defined)
            THEN /\ raised' = "NameError"
                 /\ pc' = "crash"
                 /\ UNCHANGED << defined, lindenmayerString, turtleCommands,
                                 turtle, printed >>
            ELSE LET str   == LindIter(INPUT_SYSTEM, INPUT_N)
                     graph == turtleGraph(str, INPUT_SYSTEM, INPUT_N)
                     plot  == turtlePlot(graph.value, INPUT_SYSTEM)
                 IN  /\ lindenmayerString' = str
                     /\ turtleCommands'
                          = IF graph.raised = "none" THEN graph.value
                            ELSE turtleCommands
                     /\ turtle'
                          = IF graph.raised = "none" THEN plot.turtle ELSE turtle
                     /\ defined'
                          = defined \cup {"lindenmayerString"}
                              \cup IF graph.raised = "none"
                                   THEN {"turtleCommands"} ELSE {}
                     /\ raised'
                          = IF graph.raised # "none" THEN graph.raised
                            ELSE plot.raised
                     /\ pc' = IF graph.raised = "none" /\ plot.raised = "none"
                              THEN "menu" ELSE "crash"
                     /\ UNCHANGED printed
       ELSE /\ printed' = "choose option 1 to define the input"
            /\ UNCHANGED << pc, defined, lindenmayerString, turtleCommands,
                            turtle, raised >>
    /\ UNCHANGED << fn, b, INPUT_SYSTEM, INPUT_N, range >>

\* choice "3": the loop is left
Option3 ==
    /\ fn = "main" /\ pc = "menu"
    /\ \E raw \in MenuLines : strip(raw) = <<"3">>
    /\ pc' = "exit"
    /\ UNCHANGED << fn, b, defined, INPUT_SYSTEM, INPUT_N, range,
                    lindenmayerString, turtleCommands, turtle, raised, printed >>

\* any other line
OtherChoice ==
    /\ fn = "main" /\ pc = "menu"
    /\ \E raw \in MenuLines : strip(raw) \notin { <<"1">>, <<"2">>, <<"3">> }
    /\ printed' = "enter a valid number from 1 to 3"
    /\ UNCHANGED << fn, pc, b, defined, INPUT_SYSTEM, INPUT_N, range,
                    lindenmayerString, turtleCommands, turtle, raised >>

Next ==
    \/ Option1
    \/ ChooseCurve
    \/ GetIteration
    \/ Option2
    \/ Option3
    \/ OtherChoice

Spec == Init /\ [][Next]_vars

(***************************************************************************)
(* The vectors asserted at module level (lines 153 to 164).                *)
(***************************************************************************)
KochN1 == << "S", "L", "S", "R", "S", "L", "S" >>
SierpinskiN1 == << "B", "R", "A", "R", "B" >>
KochN2 ==
    << "S", "L", "S", "R", "S", "L", "S", "L", "S", "L", "S", "R", "S", "L",
       "S", "R", "S", "L", "S", "R", "S", "L", "S", "L", "S", "L", "S", "R",
       "S", "L", "S" >>
KochN3 ==
    << "S", "L", "S", "R", "S", "L", "S", "L", "S", "L", "S", "R", "S", "L",
       "S", "R", "S", "L", "S", "R", "S", "L", "S", "L", "S", "L", "S", "R",
       "S", "L", "S", "L", "S", "L", "S", "R", "S", "L", "S", "L", "S", "L",
       "S", "R", "S", "L", "S", "R", "S", "L", "S", "R", "S", "L", "S", "L",
       "S", "L", "S", "R", "S", "L", "S", "R", "S", "L", "S", "R", "S", "L",
       "S", "L", "S", "L", "S", "R", "S", "L", "S", "R", "S", "L", "S", "R",
       "S", "L", "S", "L", "S", "L", "S", "R", "S", "L", "S", "L", "S", "L",
       "S", "R", "S", "L", "S", "L", "S", "L", "S", "R", "S", "L", "S", "R",
       "S", "L", "S", "R", "S", "L", "S", "L", "S", "L", "S", "R", "S", "L",
       "S" >>
SierpinskiN2 ==
    << "A", "L", "B", "L", "A", "R", "B", "R", "A", "R", "B", "R", "A", "L",
       "B", "L", "A" >>
SierpinskiN3 ==
    << "B", "R", "A", "R", "B", "L", "A", "L", "B", "L", "A", "L", "B", "R",
       "A", "R", "B", "R", "A", "L", "B", "L", "A", "R", "B", "R", "A", "R",
       "B", "R", "A", "L", "B", "L", "A", "R", "B", "R", "A", "R", "B", "L",
       "A", "L", "B", "L", "A", "L", "B", "R", "A", "R", "B" >>

(***************************************************************************)
(* Properties of the core functions, under SpecCore.                       *)
(***************************************************************************)
returned(f) == fn = f /\ pc = "return"
ended(f) == fn = f /\ pc \in {"return", "raise"}

\* the in-order concatenation of rules[s] over the first i symbols s of str
RECURSIVE ConcatRules(_, _, _)
ConcatRules(rules, str, i) ==
    IF i = 0 THEN << >> ELSE ConcatRules(rules, str, i - 1) \o rules[str[i]]

\* C1: for every registered system and N >= 0, the string LindIter returns
\* for N+1 generations is the in-order concatenation of rules[s] over the
\* symbols s of the string it returns for N generations.
C1_ParallelRewrite ==
    (returned("LindIter") /\ INPUT_SYSTEM \in Registered /\ INPUT_N >= 1)
        => LET before == LindIter(INPUT_SYSTEM, INPUT_N - 1)
           IN  lindenmayerString
                 = ConcatRules(System(INPUT_SYSTEM).rules, before, Len(before))

C1_Witness ==
    /\ returned("LindIter")
    /\ INPUT_SYSTEM = "Sierpinski triangle"
    /\ INPUT_N = 2
    /\ Len(lindenmayerString) = 17

\* C2: LindIter returns the initial symbol for N = 0 for every registered
\* system, and the asserted strings for the Koch curve and the Sierpinski
\* triangle at N = 1, 2 and 3.
C2_Vectors ==
    returned("LindIter") =>
        /\ (INPUT_SYSTEM \in Registered /\ INPUT_N = 0)
              => lindenmayerString = System(INPUT_SYSTEM).init
        /\ (INPUT_SYSTEM = "Koch curve" /\ INPUT_N = 0) => lindenmayerString = << "S" >>
        /\ (INPUT_SYSTEM = "Koch curve" /\ INPUT_N = 1) => lindenmayerString = KochN1
        /\ (INPUT_SYSTEM = "Koch curve" /\ INPUT_N = 2) => lindenmayerString = KochN2
        /\ (INPUT_SYSTEM = "Koch curve" /\ INPUT_N = 3) => lindenmayerString = KochN3
        /\ (INPUT_SYSTEM = "Sierpinski triangle" /\ INPUT_N = 0)
              => lindenmayerString = << "A" >>
        /\ (INPUT_SYSTEM = "Sierpinski triangle" /\ INPUT_N = 1)
              => lindenmayerString = SierpinskiN1
        /\ (INPUT_SYSTEM = "Sierpinski triangle" /\ INPUT_N = 2)
              => lindenmayerString = SierpinskiN2
        /\ (INPUT_SYSTEM = "Sierpinski triangle" /\ INPUT_N = 3)
              => lindenmayerString = SierpinskiN3

C2_Witness ==
    /\ returned("LindIter")
    /\ INPUT_SYSTEM = "Koch curve"
    /\ INPUT_N = 3
    /\ Len(lindenmayerString) = 127

\* a symbol of the string some generation starts from has no rule
MeetsUndefinedSymbol(system, N) ==
    \E g \in 0..(N - 1) :
        \E i \in 1..Len(LindIter(system, g)) :
            LindIter(system, g)[i] \notin DOMAIN System(system).rules

\* C3: rewriting fails with UndefinedSymbol whenever a symbol of the current
\* string has no entry in the rule table; LindIter then returns no string.
C3_UndefinedSymbolRaises ==
    (ended("LindIter") /\ MeetsUndefinedSymbol(INPUT_SYSTEM, INPUT_N))
        => (pc = "raise" /\ raised = "UndefinedSymbol")

\* C4: for every registered system and every negative N the request is
\* rejected with InvalidIteration and no string is produced.
C4_NegativeRejected ==
    (ended("LindIter") /\ INPUT_SYSTEM \in Registered /\ INPUT_N < 0)
        => (pc = "raise" /\ raised = "InvalidIteration")

\* the string is empty or does not start with a forward symbol
BadStart(str, system) == Len(str) = 0 \/ str[1] \notin System(system).forward

\* C5: turtleGraph fails, and returns no command sequence, for every string
\* that is empty or whose first symbol is not in the forward set.
C5_BadStartFails ==
    (ended("turtleGraph") /\ BadStart(lindenmayerString, INPUT_SYSTEM))
        => /\ pc = "raise"
           /\ raised \in {"AssertionError", "IndexError"}
           /\ turtleCommands = << >>

C5_Witness ==
    /\ fn = "turtleGraph" /\ pc = "raise"
    /\ raised = "AssertionError"
    /\ lindenmayerString = << "L", "S" >>

\* the turn symbols after the first position, in string order
TurnsAfterFirst(str, system) ==
    SelectSeq(SubSeq(str, 2, Len(str)),
              LAMBDA c : c \in System(system).left \cup System(system).right)

\* C6: for a string that starts with a forward symbol the output is (d, 0)
\* followed, for each later symbol in order, by (d, leftAngle) for a left
\* symbol, (d, rightAngle) for a right symbol and nothing for any other
\* symbol, where d = scale^-N.
C6_Encoding ==
    (ended("turtleGraph") /\ ~BadStart(lindenmayerString, INPUT_SYSTEM))
        => LET sys   == System(INPUT_SYSTEM)
               turns == TurnsAfterFirst(lindenmayerString, INPUT_SYSTEM)
               d     == turtleCommands[1]
           IN  /\ pc = "return"
               /\ Len(turtleCommands) = 2 * (1 + Len(turns))
               /\ d * Pow(sys.scale, INPUT_N) = LenUnit
               /\ turtleCommands[2] = 0
               /\ \A k \in 1..Len(turns) :
                    /\ turtleCommands[2*k + 1] = d
                    /\ turtleCommands[2*k + 2]
                         = IF turns[k] \in sys.left THEN sys.angle.left
                           ELSE sys.angle.right

C6_Witness ==
    /\ returned("turtleGraph")
    /\ INPUT_N = 2
    /\ \E i \in 2..Len(lindenmayerString) :
         lindenmayerString[i] \in System(INPUT_SYSTEM).forward
    /\ \E i \in 2..Len(lindenmayerString) : lindenmayerString[i] = "X"
    /\ \E i \in 2..Len(lindenmayerString) : lindenmayerString[i] = "R"
    /\ Len(turtleCommands) = 4

\* the sum of the angles of the first k commands of a row vector
RECURSIVE AngleSum(_, _)
AngleSum(flat, k) == IF k = 0 THEN 0 ELSE AngleSum(flat, k - 1) + flat[2*k]

\* C7: the path starts with (0,0) and has one point more than there are
\* commands; the k-th command gives the (k+1)-th point by rotating the
\* heading by its angle and then moving its distance along the new heading.
C7_Path ==
    (ended("turtlePlot") /\ Len(turtleCommands) % 2 = 0)
        => /\ Len(turtle) = Len(turtleCommands) \div 2 + 1
           /\ turtle[1] = << 0, 0 >>
           /\ \A k \in 1..(Len(turtleCommands) \div 2) :
                LET heading == AngleSum(turtleCommands, k)
                    length  == turtleCommands[2*k - 1]
                IN  turtle[k + 1]
                      = << turtle[k][1] + length * Cos2(heading),
                           turtle[k][2] + length * Sin3(heading) >>

C7_Witness ==
    /\ returned("turtlePlot")
    /\ turtleCommands = << 1, 1, 2, -2 >>
    /\ turtle = << <<0, 0>>, <<1, 1>>, <<3, -1>> >>

KochN1Encoded ==
    /\ ended("turtleGraph")
    /\ INPUT_SYSTEM = "Koch curve"
    /\ INPUT_N = 1
    /\ lindenmayerString = KochN1

\* C8 as stated: the Koch curve string of N = 1 encodes to commands that
\* start (d, 0), (d, leftAngle), (d, 0), with d = 3^-1.
C8_AsStated ==
    KochN1Encoded
        => /\ pc = "return"
           /\ 3 * turtleCommands[1] = LenUnit
           /\ SubSeq(turtleCommands, 1, 6)
                = << turtleCommands[1], 0,
                     turtleCommands[1], System("Koch curve").angle.left,
                     turtleCommands[1], 0 >>

\* C8, amended: the Koch curve string of N = 1 encodes to exactly the four
\* commands (d, 0), (d, leftAngle), (d, rightAngle), (d, leftAngle), with
\* d = 3^-1: the third command is the right turn, the forward symbols after
\* the first giving no command.
C8_KochN1Commands ==
    KochN1Encoded
        => /\ pc = "return"
           /\ 3 * turtleCommands[1] = LenUnit
           /\ turtleCommands
                = << turtleCommands[1], 0,
                     turtleCommands[1], System("Koch curve").angle.left,
                     turtleCommands[1], System("Koch curve").angle.right,
                     turtleCommands[1], System("Koch curve").angle.left >>

C8_Witness == KochN1Encoded /\ pc = "return" /\ Len(turtleCommands) = 8

(***************************************************************************)
(* Properties of the menu loop, under Spec.                                *)
(***************************************************************************)
\* both stored names are bound
Assigned == {"INPUT_SYSTEM", "INPUT_N"} \subseteq defined

\* C9: option 2 runs the pipeline only with a system name and an iteration
\* count assigned by an earlier option 1; while no curve selection was ever
\* completed, option 2 only prints the 'choose option 1' message and runs
\* nothing.
C9_Option2Guarded ==
    [][ /\ (Option2 /\ "lindenmayerString" \in defined') => Assigned
        /\ (Option2 /\ ~Assigned)
              => /\ printed' = "choose option 1 to define the input"
                 /\ pc' = "menu"
                 /\ raised' = "none"
                 /\ UNCHANGED << lindenmayerString, turtleCommands, turtle >>
      ]_vars

\* the iteration counts the menu allows for a system
Allowed(system) == IF system = "Koch curve" THEN 0..5 ELSE 0..8

\* C10: whenever option 2 runs the pipeline the stored iteration count is in
\* the range allowed for the stored system, 0 to 5 for the Koch curve and 0
\* to 8 for the Sierpinski triangle; an option 1 abandoned on an invalid
\* curve choice leaves the stored system and iteration count unchanged.
C10_StoredCountInRange ==
    [][ /\ (Option2 /\ b /\ Assigned)
              => /\ INPUT_SYSTEM \in Registered
                 /\ INPUT_N \in Allowed(INPUT_SYSTEM)
        /\ (ChooseCurve /\ pc' = "menu")
              => UNCHANGED << INPUT_SYSTEM, INPUT_N, defined >>
      ]_vars

C10_Witness ==
    /\ fn = "main" /\ pc = "menu"
    /\ printed = "redirected to the main menu"
    /\ INPUT_SYSTEM = "Sierpinski triangle"
    /\ INPUT_N = 6
    /\ Len(lindenmayerString) = 1457
    /\ Len(turtle) = 730

====
